---- MODULE Spec2Model ----
(***************************************************************************)
(* Weather MCP server: the retrying geocoding call of src/sse-server.ts    *)
(* (geocodeCity) and the get_weather_forecast tool call that is built on   *)
(* it.  One geocodeCity call is a small state machine whose suspension     *)
(* points are the awaits of the source: the fetch, the body read and the   *)
(* backoff sleep.  The upstream service is the environment: it picks the   *)
(* HTTP status, the body, or no answer at all.                             *)
(*                                                                         *)
(* Error messages are sequences of text fragments, so that the substring   *)
(* tests of the catch block are computed on the message that was built     *)
(* and not on a tag.                                                       *)
(***************************************************************************)
EXTENDS Integers, Sequences, FiniteSets, TLC

VARIABLES
    caller,      \* who called geocodeCity: "none", "direct" or "tool"
    city,        \* geocodeCity parameter
    country,     \* geocodeCity parameter ("" is the absent country)
    maxRetries,  \* geocodeCity parameter
    timeoutMs,   \* geocodeCity parameter
    attempt,     \* the loop variable of geocodeCity
    pc,          \* position of the geocodeCity call
    timerArmed,  \* the abort timer of the current attempt is pending
    lastError,   \* lastError of geocodeCity; the thrown error once Failed
    location,    \* the value geocodeCity returned
    events,      \* history: attempts, their outcomes and the backoff waits
    hpc,         \* position of the CallTool handler
    toolName,    \* request.params.name
    toolArgs,    \* request.params.arguments
    wxPlan,      \* what the weather endpoint answers to its 1st, 2nd, ... request
    wxRequests,  \* number of requests sent to the weather endpoint
    toolResult,  \* the value the CallTool handler returned
    connections, \* ConnectionRegistry.connections: session id -> SSEConnection
    timerActive, \* cleanupInterval is set and has not been cleared
    sweepDue,    \* the time at which the cleanup interval is next due
    now,         \* the clock (ms)
    shutdownCalled, \* history: shutdown() has run
    lastOp,      \* history: the last registry operation and what it returned
    prev,        \* history: connections before the last registry operation
    sse,         \* per session id: the /sse request and its response stream
    postPc,      \* position of the POST /message handler
    postConn,    \* the connection the POST /message handler holds
    lastHttp,    \* the answer to the last POST /message request
    httpCount,   \* number of POST /message requests received
    forwarded,   \* the messages handed to a transport, in order
    running,     \* the process has not exited
    bodyFull,    \* history: the last geocoding body carried all four fields
    ssePc,       \* sse-server.ts: position of the GET /sse handler
    reqLog,      \* sse-server.ts: the requests answered so far, with their status
    messageId,   \* proxy: the next request id
    pendingRequests, \* proxy: the ids that have an entry in pendingRequests
    serverReady, \* proxy: the child has logged that it is running
    readyCallbacks,  \* proxy: the invocations waiting in waitForReady
    calls,       \* proxy: per callMCPTool invocation, its position and history
    current,     \* fetchWeatherAlerts: currentWeather.current
    alerts       \* fetchWeatherAlerts: the alerts list it returned

vars == <<caller, city, country, maxRetries, timeoutMs, attempt, pc, timerArmed,
          lastError, location, events, hpc, toolName, toolArgs, wxPlan,
          wxRequests, toolResult, connections, timerActive, sweepDue, now,
          shutdownCalled, lastOp, prev, sse, postPc, postConn, lastHttp,
          httpCount, forwarded, running, bodyFull, ssePc, reqLog, messageId,
          pendingRequests, serverReady, readyCallbacks, calls, current, alerts>>

geoVars == <<caller, city, country, maxRetries, timeoutMs, attempt, pc,
             timerArmed, lastError, location, events>>

toolVars == <<hpc, toolName, toolArgs, wxPlan, wxRequests, toolResult>>

regVars == <<connections, timerActive, sweepDue, now, shutdownCalled, lastOp, prev>>

httpVars == <<sse, postPc, postConn, lastHttp, httpCount, forwarded, running>>

sseSrvVars == <<ssePc, reqLog>>

proxyVars == <<messageId, pendingRequests, serverReady, readyCallbacks, calls>>

alertVars == <<current, alerts>>

auxVars == <<sseSrvVars, proxyVars, alertVars>>

coreVars == <<geoVars, toolVars, regVars, httpVars, bodyFull>>

----------------------------------------------------------------------------
(* Bounds of the model *)

MaxBudget == 3            \* largest maxRetries a direct call is given

MaxPlanLen == 3           \* length of the weather endpoint's answer plan

MaxTicks == 3             \* the clock stops after this many steps of TickMs

MaxPosts == 2             \* number of POST /message requests

MaxRequests == 3          \* number of requests the sse-server log keeps

MaxCalls == 3             \* number of callMCPTool invocations

----------------------------------------------------------------------------
(* Program constants and input domains *)

DefaultMaxRetries == 3

DefaultTimeoutMs == 10000

DefaultDays == 7

MinDays == 1

MaxDays == 16

Cities == {"Manila", "Paris"}

Countries == {"", "PH"}

TimeoutChoices == {DefaultTimeoutMs, 2500}

Statuses == {200, 404, 429, 500, 503}

ReasonPhrase ==
    [s \in Statuses |->
        CASE s = 200 -> "OK"
          [] s = 404 -> "Not Found"
          [] s = 429 -> "Too Many Requests"
          [] s = 500 -> "Internal Server Error"
          [] s = 503 -> "Service Unavailable"]

\* response.ok
ResponseOk(status) == status >= 200 /\ status <= 299

\* JavaScript truthiness of a field of the geocoding result
Falsy(v) == v \in {"absent", "zero", "empty"}

FieldNumber == {"absent", "zero", "nonzero"}

FieldText == {"absent", "empty", "text"}

\* the bodies the geocoding endpoint can send after a successful status
Bodies ==
    {[kind |-> k, results |-> "missing", latitude |-> "absent",
      longitude |-> "absent", name |-> "absent", timezone |-> "absent"] :
        k \in {"invalid", "null", "object"}}
    \cup
    {[kind |-> "object", results |-> "empty", latitude |-> "absent",
      longitude |-> "absent", name |-> "absent", timezone |-> "absent"]}
    \cup
    [kind : {"object"}, results : {"one"}, latitude : FieldNumber,
     longitude : FieldNumber, name : FieldText, timezone : {"absent", "text"}]

----------------------------------------------------------------------------
(* Errors: a name and a message made of text fragments *)

NoError == [name |-> "none", message |-> <<>>]

NoLocation == [latitude |-> "none", longitude |-> "none", name |-> "none",
               timezone |-> "none"]

MkError(msg) == [name |-> "Error", message |-> msg]

\* String.prototype.includes on a message, for a needle that is one fragment
Includes(msg, needle) == \E i \in 1..Len(msg) : msg[i] = needle

ServerErrorMessage(status) ==
    <<"Geocoding API server error (", ToString(status), "): ",
      ReasonPhrase[status], ". The service may be temporarily down.">>

RateLimitMessage ==
    <<"Geocoding API ", "rate limit", " exceeded. Please try again later.">>

ClientErrorMessage(status) ==
    <<"Geocoding API error (", ToString(status), "): ", ReasonPhrase[status]>>

InvalidJsonMessage ==
    <<"Geocoding API returned ", "invalid JSON", " response. The service may be experiencing issues.">>

CityNotFoundMessage(c, co) ==
    <<"City not found", ": \"", c, "\"">>
    \o (IF co # "" THEN <<" in ", co>> ELSE <<>>)
    \o <<". Please check the spelling and try again.">>

IncompleteMessage ==
    <<"Geocoding API returned ", "incomplete data", ". The service may be experiencing issues.">>

TimeoutMessage(t) ==
    <<"Geocoding API request ", "timed out after ", ToString(t), "ms", ". The service may be slow or down.">>

FallbackMessage == <<"Geocoding failed after all retry attempts">>

\* what fetch rejects with when the AbortController fires
AbortError == [name |-> "AbortError", message |-> <<"This operation was aborted">>]

\* what fetch rejects with on a network failure
NetworkError == [name |-> "TypeError", message |-> <<"fetch failed">>]

\* what data.results throws when the body is the JSON value null
NullDataError ==
    [name |-> "TypeError", message |-> <<"Cannot read properties of null (reading 'results')">>]

\* the error thrown for a response that is not ok
StatusError(status) ==
    IF status >= 500 THEN MkError(ServerErrorMessage(status))
    ELSE IF status = 429 THEN MkError(RateLimitMessage)
    ELSE MkError(ClientErrorMessage(status))

----------------------------------------------------------------------------
(* History events of one geocodeCity call *)

AttemptEv(k) == [ev |-> "attempt", n |-> k, kind |-> "fetch", val |-> 0]

OutcomeEv(k, kind, status) == [ev |-> "outcome", n |-> k, kind |-> kind, val |-> status]

WaitEv(k, ms) == [ev |-> "wait", n |-> k, kind |-> "backoff", val |-> ms]

----------------------------------------------------------------------------
(* The decisions of geocodeCity *)

\* for (let attempt = 0; attempt < maxRetries; attempt++)
LoopCondition(k, mr) == k < mr

\* variants of the catch block's tests, used to probe the claims
IsTerminalMessage_NoRateLimit(msg) == Includes(msg, "City not found")

IsTerminalMessage_NoCityNotFound(msg) == Includes(msg, "rate limit")

IsTerminalMessage_AlsoInvalidJson(msg) ==
    Includes(msg, "City not found") \/ Includes(msg, "rate limit")
        \/ Includes(msg, "invalid JSON")

\* the errors the catch block rethrows at once
IsTerminalMessage(msg) ==
    Includes(msg, "City not found") \/ Includes(msg, "rate limit")

\* variant: the abort error is passed on as it is
Relabel_None(e, t) == e

\* an AbortError is replaced by the timed-out error
Relabel(e, t) ==
    IF e.name = "AbortError" THEN MkError(TimeoutMessage(t)) ELSE e

\* variant: the last retry is given up one attempt early
RetriesLeft_OffByOne(k, mr) == k < mr - 2

\* if (attempt < maxRetries - 1)
RetriesLeft(k, mr) == k < mr - 1

RECURSIVE Pow2(_)
Pow2(k) == IF k = 0 THEN 1 ELSE 2 * Pow2(k - 1)

\* variant: base and exponent swapped, Math.pow(attempt, 2)
BackoffMs_Swapped(k) == k * k * 1000

\* const backoffMs = Math.pow(2, attempt) * 1000
BackoffMs(k) == Pow2(k) * 1000

\* if (!data.results || data.results.length === 0)
ResultsMissing(body) == body.results \in {"missing", "empty"}

\* if (!result.latitude || !result.longitude || !result.name || !result.timezone)
ResultIncomplete(body) ==
    Falsy(body.latitude) \/ Falsy(body.longitude) \/ Falsy(body.name)
        \/ Falsy(body.timezone)

\* the first result carries latitude, longitude, name and timezone
AllPresent(body) ==
    /\ body.kind = "object"
    /\ body.results = "one"
    /\ body.latitude # "absent"
    /\ body.longitude # "absent"
    /\ body.name = "text"
    /\ body.timezone = "text"

\* what the try block does with the body of a successful response:
\* the error it throws, or NoError when it returns the location
BodyError(body, c, co) ==
    IF body.kind = "invalid" THEN MkError(InvalidJsonMessage)
    ELSE IF body.kind = "null" THEN NullDataError
    ELSE IF ResultsMissing(body) THEN MkError(CityNotFoundMessage(c, co))
    ELSE IF ResultIncomplete(body) THEN MkError(IncompleteMessage)
    ELSE NoError

BodyOutcomeKind(body) ==
    IF body.kind = "invalid" THEN "invalidJson"
    ELSE IF body.kind = "null" THEN "nullBody"
    ELSE IF ResultsMissing(body) THEN "notFound"
    ELSE IF ResultIncomplete(body) THEN "incomplete"
    ELSE "ok"

LocationOf(body) ==
    [latitude |-> body.latitude, longitude |-> body.longitude,
     name |-> body.name, timezone |-> body.timezone]

----------------------------------------------------------------------------
(* The steps of geocodeCity *)

\* the call ends by throwing e
Throw(e, ev) ==
    /\ pc' = "Failed"
    /\ lastError' = e
    /\ events' = ev
    /\ timerArmed' = FALSE
    /\ UNCHANGED <<attempt, location>>

\* loop head for attempt k: a new controller, its timer and the fetch,
\* or the throw after the loop
EnterLoop(k, mr, le, ev) ==
    IF LoopCondition(k, mr)
    THEN /\ attempt' = k
         /\ pc' = "fetch"
         /\ timerArmed' = TRUE
         /\ lastError' = le
         /\ events' = Append(ev, AttemptEv(k))
         /\ UNCHANGED location
    ELSE /\ attempt' = k
         /\ pc' = "Failed"
         /\ timerArmed' = FALSE
         /\ lastError' = (IF le # NoError THEN le ELSE MkError(FallbackMessage))
         /\ events' = ev
         /\ UNCHANGED location

\* the catch block, entered with the thrown error e
Catch(e, ev) ==
    IF IsTerminalMessage(e.message)
    THEN Throw(e, ev)
    ELSE IF RetriesLeft(attempt, maxRetries)
         THEN /\ pc' = "backoff"
              /\ lastError' = Relabel(e, timeoutMs)
              /\ events' = Append(ev, WaitEv(attempt, BackoffMs(attempt)))
              /\ timerArmed' = FALSE
              /\ UNCHANGED <<attempt, location>>
         ELSE Throw(Relabel(e, timeoutMs), ev)

\* a direct call geocodeCity(c, co, mr, t)
CallGeocode(c, co, mr, t) ==
    /\ pc = "idle" /\ hpc = "idle"
    /\ caller' = "direct"
    /\ city' = c /\ country' = co /\ maxRetries' = mr /\ timeoutMs' = t
    /\ EnterLoop(0, mr, NoError, <<>>)
    /\ UNCHANGED toolVars
    /\ UNCHANGED <<regVars, httpVars, auxVars, bodyFull>>

\* the fetch resolves with a response; .finally clears the timer
FetchResolves(status) ==
    /\ pc = "fetch"
    /\ IF ResponseOk(status)
       THEN /\ pc' = "body"
            /\ timerArmed' = FALSE
            /\ events' = events
            /\ UNCHANGED <<attempt, lastError, location>>
       ELSE Catch(StatusError(status),
                  Append(events, OutcomeEv(attempt, "http", status)))
    /\ UNCHANGED <<caller, city, country, maxRetries, timeoutMs>>
    /\ UNCHANGED toolVars
    /\ UNCHANGED <<regVars, httpVars, auxVars, bodyFull>>

\* the fetch rejects with a network failure
FetchRejects ==
    /\ pc = "fetch"
    /\ Catch(NetworkError, Append(events, OutcomeEv(attempt, "neterr", 0)))
    /\ UNCHANGED <<caller, city, country, maxRetries, timeoutMs>>
    /\ UNCHANGED toolVars
    /\ UNCHANGED <<regVars, httpVars, auxVars, bodyFull>>

\* variant: the abort is noted but the fetch of the attempt stays awaited
TimerFires_FetchStaysAwaited ==
    /\ pc = "fetch" /\ timerArmed
    /\ timerArmed' = FALSE
    /\ events' = Append(events, OutcomeEv(attempt, "abort", 0))
    /\ UNCHANGED <<pc, attempt, lastError, location>>
    /\ UNCHANGED <<caller, city, country, maxRetries, timeoutMs>>
    /\ UNCHANGED toolVars
    /\ UNCHANGED <<regVars, httpVars, auxVars, bodyFull>>

\* the timer of the attempt fires: controller.abort() rejects the fetch
TimerFires ==
    /\ pc = "fetch" /\ timerArmed
    /\ Catch(AbortError, Append(events, OutcomeEv(attempt, "abort", 0)))
    /\ UNCHANGED <<caller, city, country, maxRetries, timeoutMs>>
    /\ UNCHANGED toolVars
    /\ UNCHANGED <<regVars, httpVars, auxVars, bodyFull>>

\* response.json() settles with the body the upstream sent
BodyArrives(body) ==
    /\ pc = "body"
    /\ LET e == BodyError(body, city, country)
           ev == Append(events, OutcomeEv(attempt, BodyOutcomeKind(body), 200))
       IN IF e = NoError
          THEN /\ pc' = "Success"
               /\ location' = LocationOf(body)
               /\ events' = ev
               /\ UNCHANGED <<attempt, lastError, timerArmed>>
          ELSE Catch(e, ev)
    /\ UNCHANGED <<caller, city, country, maxRetries, timeoutMs>>
    /\ UNCHANGED toolVars
    /\ UNCHANGED <<regVars, httpVars, auxVars>>
    /\ bodyFull' = AllPresent(body)

\* the backoff sleep is over: continue, attempt++, next loop pass
BackoffElapsed ==
    /\ pc = "backoff"
    /\ EnterLoop(attempt + 1, maxRetries, lastError, events)
    /\ UNCHANGED <<caller, city, country, maxRetries, timeoutMs>>
    /\ UNCHANGED toolVars
    /\ UNCHANGED <<regVars, httpVars, auxVars, bodyFull>>

----------------------------------------------------------------------------
(* geocodeCity of the stdio server (src/index.ts) *)

\* the stdio geocodeCity has no loop: one fetch(geoUrl)
StdioAttempts == 1

\* how the stdio geocodeCity ends, given what the upstream does with its
\* one request (o is the outcome record of that request):
\*   no answer       -> the await never settles (there is no timer)
\*   network failure -> fetch rejects, the rejection propagates
\*   status not ok   -> throw 'Geocoding API error: <statusText>'
\*   invalid JSON    -> response.json() rejects
\*   null body       -> data.results throws a TypeError
\*   no results      -> throw 'City not found: <city>'
\*   any first result, complete or not -> it is returned
StdioGeocode(o) ==
    IF o.kind = "abort" THEN "pending"
    ELSE IF o.kind = "neterr" THEN "error"
    ELSE IF o.kind = "http" /\ ~ResponseOk(o.val) THEN "error"
    ELSE IF o.kind \in {"invalidJson", "nullBody"} THEN "error"
    ELSE IF o.kind = "notFound" THEN "error"
    ELSE "location"

----------------------------------------------------------------------------
(* The CallTool handler and the five tools *)

DefaultYearsBack == 1

MinMonth == 1

MaxMonth == 12

MinYearsBack == 1

MaxYearsBack == 10

RegisteredTools ==
    {"get_current_weather", "get_weather_forecast", "get_weather_alerts",
     "get_growing_conditions", "get_historical_weather"}

ToolNames == RegisteredTools \cup {"get_moon_phase"}

DaysChoices == {MinDays - 1, MinDays, MaxDays, MaxDays + 1}

MonthChoices == {MinMonth - 1, MinMonth, MaxMonth, MaxMonth + 1}

YearsChoices == {MinYearsBack - 1, MinYearsBack, MaxYearsBack, MaxYearsBack + 1}

\* the argument bags a client can send; every key may be absent
ArgBags ==
    {[hasCity |-> c.has, city |-> c.city, country |-> c.country,
      hasDays |-> d.has, days |-> d.val,
      hasMonth |-> m.has, month |-> m.val,
      hasYears |-> y.has, years_back |-> y.val] :
        c \in [has : {TRUE}, city : Cities, country : Countries]
                \cup {[has |-> FALSE, city |-> "", country |-> ""]},
        d \in [has : {TRUE}, val : DaysChoices] \cup {[has |-> FALSE, val |-> 0]},
        m \in [has : {TRUE}, val : MonthChoices] \cup {[has |-> FALSE, val |-> 0]},
        y \in [has : {TRUE}, val : YearsChoices] \cup {[has |-> FALSE, val |-> 0]}}

NoArgs == [hasCity |-> FALSE, city |-> "", country |-> "", hasDays |-> FALSE,
           days |-> 0, hasMonth |-> FALSE, month |-> 0, hasYears |-> FALSE,
           years_back |-> 0]

\* GetCurrentWeatherArgsSchema.parse succeeds
CurrentArgsValid(args) == args.hasCity

\* variant: the upper limit of days is not enforced
ForecastArgsValid_NoMax(args) ==
    /\ args.hasCity
    /\ args.hasDays => args.days >= MinDays

\* GetWeatherForecastArgsSchema.parse succeeds
ForecastArgsValid(args) ==
    /\ args.hasCity
    /\ args.hasDays => (args.days >= MinDays /\ args.days <= MaxDays)

\* GetWeatherAlertsArgsSchema.parse succeeds
AlertsArgsValid(args) == args.hasCity

\* GetGrowingConditionsArgsSchema.parse succeeds
GrowingArgsValid(args) == args.hasCity

\* GetHistoricalWeatherArgsSchema.parse succeeds
HistoricalArgsValid(args) ==
    /\ args.hasCity
    /\ args.hasMonth /\ args.month >= MinMonth /\ args.month <= MaxMonth
    /\ args.hasYears =>
          (args.years_back >= MinYearsBack /\ args.years_back <= MaxYearsBack)

\* the parse of the schema of tool name succeeds
ArgsValid(name, args) ==
    CASE name = "get_current_weather" -> CurrentArgsValid(args)
      [] name = "get_weather_forecast" -> ForecastArgsValid(args)
      [] name = "get_weather_alerts" -> AlertsArgsValid(args)
      [] name = "get_growing_conditions" -> GrowingArgsValid(args)
      [] name = "get_historical_weather" -> HistoricalArgsValid(args)

\* what parse returns: the keys of the schema, the others stripped
ParsedArgs(name, args) ==
    [hasCity |-> args.hasCity, city |-> args.city, country |-> args.country,
     hasDays |-> (name = "get_weather_forecast" /\ args.hasDays),
     days |-> (IF name = "get_weather_forecast" THEN args.days ELSE 0),
     hasMonth |-> (name = "get_historical_weather" /\ args.hasMonth),
     month |-> (IF name = "get_historical_weather" THEN args.month ELSE 0),
     hasYears |-> (name = "get_historical_weather" /\ args.hasYears),
     years_back |-> (IF name = "get_historical_weather" THEN args.years_back ELSE 0)]

\* days after .default(7)
ParsedDays(args) == IF args.hasDays THEN args.days ELSE DefaultDays

\* years_back after .default(1)
ParsedYears(args) == IF args.hasYears THEN args.years_back ELSE DefaultYearsBack

WxAnswers == {"timeout", "unavailable", "ok"}

\* the answers of the weather endpoint to successive requests
WxPlans == [1..MaxPlanLen -> WxAnswers]

\* the answer to request number r; past its end the plan starts again
WxAnswer(plan, r) == plan[((r - 1) % Len(plan)) + 1]

NoResult == [isError |-> FALSE, text |-> <<>>]

\* variant: the error flag is left out
ErrorResult_NoFlag(msg) == [isError |-> FALSE, text |-> <<"Error: ">> \o msg]

\* the result of the handler's catch block
ErrorResult(msg) == [isError |-> TRUE, text |-> <<"Error: ">> \o msg]

\* the result built from the forecast data
ForecastResult(loc, days) ==
    [isError |-> FALSE, text |-> <<"forecast", loc.name, ToString(days)>>]

\* the result built from the data of the other tools
DataResult(name, loc) == [isError |-> FALSE, text |-> <<name, loc.name>>]

ZodErrorMessage == <<"ZodError">>

UnknownToolMessage(name) == <<"Unknown tool: ", name>>

WeatherApiErrorMessage(status) == <<"Weather API error: ", ReasonPhrase[status]>>

HistoricalApiErrorMessage(status) ==
    <<"Historical Weather API error: ", ReasonPhrase[status]>>

MalformedForecastMessage == <<"Cannot read properties of undefined (reading 'time')">>

\* the handler returns r
Return(r) ==
    /\ hpc' = "returned"
    /\ toolResult' = r
    /\ UNCHANGED <<wxPlan, wxRequests>>

\* a tools/call request arrives
CallTool(name, args) ==
    /\ pc = "idle" /\ hpc = "idle"
    /\ toolName' = name
    /\ IF name \notin RegisteredTools
       THEN /\ toolArgs' = args
            /\ Return(ErrorResult(UnknownToolMessage(name)))
            /\ UNCHANGED geoVars
       ELSE IF ~ArgsValid(name, args)
       THEN /\ toolArgs' = args
            /\ Return(ErrorResult(ZodErrorMessage))
            /\ UNCHANGED geoVars
       ELSE /\ toolArgs' = ParsedArgs(name, args)
            /\ hpc' = "geocoding"
            /\ caller' = "tool"
            /\ city' = args.city /\ country' = args.country
            /\ maxRetries' = DefaultMaxRetries /\ timeoutMs' = DefaultTimeoutMs
            /\ EnterLoop(0, DefaultMaxRetries, NoError, <<>>)
            /\ UNCHANGED <<wxPlan, wxRequests, toolResult>>
    /\ UNCHANGED <<regVars, httpVars, auxVars, bodyFull>>

\* the first request to the weather endpoint is sent
IssueWeatherFetch(plan) ==
    /\ hpc' = "wxFetch"
    /\ wxPlan' = plan
    /\ wxRequests' = wxRequests + 1
    /\ UNCHANGED toolResult

\* fetchWeatherForecast, and each of the other fetch functions, resumes
\* after await geocodeCity(...): the error goes to the handler's catch, the
\* location into a fetch of the weather URL; fetchWeatherAlerts calls
\* fetchCurrentWeather, which geocodes the city once more
ForecastResumes(plan) ==
    /\ hpc = "geocoding"
    /\ pc \in {"Success", "Failed"}
    /\ IF pc = "Failed"
       THEN /\ Return(ErrorResult(lastError.message))
            /\ UNCHANGED geoVars
       ELSE IF toolName = "get_weather_alerts"
       THEN /\ hpc' = "geocoding2"
            /\ EnterLoop(0, DefaultMaxRetries, NoError, <<>>)
            /\ UNCHANGED <<caller, city, country, maxRetries, timeoutMs>>
            /\ UNCHANGED <<wxPlan, wxRequests, toolResult>>
       ELSE /\ IssueWeatherFetch(plan)
            /\ UNCHANGED geoVars
    /\ UNCHANGED <<toolName, toolArgs>>
    /\ UNCHANGED <<regVars, httpVars, auxVars, bodyFull>>

\* fetchCurrentWeather, called by fetchWeatherAlerts, resumes after its own
\* await geocodeCity(...)
AlertsWeatherResumes(plan) ==
    /\ hpc = "geocoding2"
    /\ pc \in {"Success", "Failed"}
    /\ IF pc = "Failed"
       THEN Return(ErrorResult(lastError.message))
       ELSE IssueWeatherFetch(plan)
    /\ UNCHANGED <<toolName, toolArgs>>
    /\ UNCHANGED geoVars
    /\ UNCHANGED <<regVars, httpVars, auxVars, bodyFull>>

\* await fetch(weatherUrl) settles with the endpoint's answer to this request
WxFetchSettles ==
    /\ hpc = "wxFetch"
    /\ LET a == WxAnswer(wxPlan, wxRequests) IN
       CASE a = "ok" ->
              /\ hpc' = "wxBody"
              /\ UNCHANGED <<wxPlan, wxRequests, toolResult>>
         [] a = "unavailable" ->
              IF toolName = "get_historical_weather"
              THEN Return(ErrorResult(HistoricalApiErrorMessage(503)))
              ELSE Return(ErrorResult(WeatherApiErrorMessage(503)))
         [] a = "timeout" ->
              Return(ErrorResult(NetworkError.message))
    /\ UNCHANGED <<toolName, toolArgs>>
    /\ UNCHANGED geoVars
    /\ UNCHANGED <<regVars, httpVars, auxVars, bodyFull>>

\* await response.json() settles and the result is built; the loop of
\* fetchHistoricalWeather goes on to the request of the next year
WxBodyArrives(wellFormed) ==
    /\ hpc = "wxBody"
    /\ IF ~wellFormed
       THEN Return(ErrorResult(MalformedForecastMessage))
       ELSE IF toolName = "get_historical_weather"
                /\ wxRequests < ParsedYears(toolArgs)
       THEN /\ hpc' = "wxFetch"
            /\ wxRequests' = wxRequests + 1
            /\ UNCHANGED <<wxPlan, toolResult>>
       ELSE IF toolName = "get_weather_forecast"
       THEN Return(ForecastResult(location, ParsedDays(toolArgs)))
       ELSE Return(DataResult(toolName, location))
    /\ UNCHANGED <<toolName, toolArgs>>
    /\ UNCHANGED geoVars
    /\ UNCHANGED <<regVars, httpVars, auxVars, bodyFull>>

----------------------------------------------------------------------------
(* The connection registry of the routing server *)

\* setInterval(..., 5 * 60 * 1000)
CleanupIntervalMs == 5 * 60 * 1000

\* const timeout = 30 * 60 * 1000
StaleTimeoutMs == 30 * 60 * 1000

\* the clock is observed every third cleanup interval
TickMs == 3 * CleanupIntervalMs

SessionIds == {"s1", "s2"}

\* url.searchParams.get('session') of a URL without the parameter
NoSession == ""

\* the transport and the server objects a caller can register
Handles == {[transport |-> "t1", server |-> "m1"],
            [transport |-> "t2", server |-> "m2"]}

NoHandle == [transport |-> "", server |-> ""]

\* the transport and the server the /sse handler creates for a session
HandleOf ==
    [id \in SessionIds |->
        IF id = "s1" THEN [transport |-> "t1", server |-> "m1"]
        ELSE [transport |-> "t2", server |-> "m2"]]

\* undefined, the result of get on an unknown id
NoConnection == [sessionId |-> "", transport |-> "", server |-> "",
                 createdAt |-> 0, lastActivity |-> 0]

\* new Map()
EmptyMap == [id \in {} |-> NoConnection]

Restrict(conns, ids) == [id \in ids |-> conns[id]]

\* connections.set(sessionId, {sessionId, transport, server, createdAt: now, lastActivity: now})
RegisterMap(conns, id, h, t) ==
    [i \in DOMAIN conns \cup {id} |->
        IF i = id
        THEN [sessionId |-> id, transport |-> h.transport, server |-> h.server,
              createdAt |-> t, lastActivity |-> t]
        ELSE conns[i]]

\* variant: get returns the entry without touching it
GetResult_NoTouch(conns, id, t) ==
    IF id \in DOMAIN conns THEN conns[id] ELSE NoConnection

\* variant: the touch also resets createdAt
GetResult_ResetsCreatedAt(conns, id, t) ==
    IF id \in DOMAIN conns
    THEN [conns[id] EXCEPT !.lastActivity = t, !.createdAt = t]
    ELSE NoConnection

\* what get returns: the entry, its lastActivity set to the current time
GetResult(conns, id, t) ==
    IF id \in DOMAIN conns
    THEN [conns[id] EXCEPT !.lastActivity = t]
    ELSE NoConnection

\* the map after get: the returned object is the stored one
GetMap(conns, id, t) ==
    IF id \in DOMAIN conns
    THEN [conns EXCEPT ![id] = GetResult(conns, id, t)]
    ELSE conns

\* variant: remove empties the map
RemoveMap_Clear(conns, id) == EmptyMap

\* connections.delete(sessionId)
RemoveMap(conns, id) == Restrict(conns, DOMAIN conns \ {id})

\* variant: an entry idle for exactly the threshold is stale too
IsStale_AtThreshold(c, t) == t - c.lastActivity >= StaleTimeoutMs

\* variant: idleness is counted from the creation of the entry
IsStale_SinceCreation(c, t) == t - c.createdAt > StaleTimeoutMs

\* if (inactive > timeout)
IsStale(c, t) == t - c.lastActivity > StaleTimeoutMs

\* variant: the sweep looks at every entry and removes none
CleanupMap_KeepsAll(conns, t) == conns

\* the loop of cleanupStaleConnections
CleanupMap(conns, t) ==
    Restrict(conns, {id \in DOMAIN conns : ~IsStale(conns[id], t)})

\* variant: the interval is left running
ClearInterval_Forgotten(active) == active

\* clearInterval(this.cleanupInterval)
ClearInterval(active) == FALSE

\* variant: the handler never takes the 404 branch
SessionMissing_Never(conn) == FALSE

\* if (!connection)
SessionMissing(conn) == conn = NoConnection

NoOp == [op |-> "none", id |-> "", handle |-> NoHandle, ret |-> NoConnection,
         at |-> 0]

Op(op, id, h, ret) == [op |-> op, id |-> id, handle |-> h, ret |-> ret, at |-> now]

NoHttp == [session |-> "", status |-> 0, error |-> ""]

NoSse == [pc |-> "none", closed |-> FALSE, listener |-> FALSE]

\* registry.register(id, transport, server)
Register(id, h) ==
    /\ running
    /\ connections' = RegisterMap(connections, id, h, now)
    /\ prev' = connections
    /\ lastOp' = Op("register", id, h, NoConnection)
    /\ UNCHANGED <<timerActive, sweepDue, now, shutdownCalled>>
    /\ UNCHANGED <<geoVars, toolVars, httpVars, auxVars, bodyFull>>

\* registry.get(id)
Get(id) ==
    /\ running
    /\ connections' = GetMap(connections, id, now)
    /\ prev' = connections
    /\ lastOp' = Op("get", id, NoHandle, GetResult(connections, id, now))
    /\ UNCHANGED <<timerActive, sweepDue, now, shutdownCalled>>
    /\ UNCHANGED <<geoVars, toolVars, httpVars, auxVars, bodyFull>>

\* registry.remove(id)
Remove(id) ==
    /\ running
    /\ connections' = RemoveMap(connections, id)
    /\ prev' = connections
    /\ lastOp' = Op("remove", id, NoHandle, NoConnection)
    /\ UNCHANGED <<timerActive, sweepDue, now, shutdownCalled>>
    /\ UNCHANGED <<geoVars, toolVars, httpVars, auxVars, bodyFull>>

\* the cleanup interval fires: cleanupStaleConnections()
CleanupStaleConnections ==
    /\ running
    /\ timerActive
    /\ now >= sweepDue
    /\ connections' = CleanupMap(connections, now)
    /\ prev' = connections
    /\ lastOp' = Op("sweep", "", NoHandle, NoConnection)
    /\ sweepDue' = now + CleanupIntervalMs
    /\ UNCHANGED <<timerActive, now, shutdownCalled>>
    /\ UNCHANGED <<geoVars, toolVars, httpVars, auxVars, bodyFull>>

\* the body of shutdown()
ShutdownRegistry ==
    /\ timerActive' = ClearInterval(timerActive)
    /\ connections' = EmptyMap
    /\ prev' = connections
    /\ lastOp' = Op("shutdown", "", NoHandle, NoConnection)
    /\ shutdownCalled' = TRUE
    /\ UNCHANGED <<sweepDue, now>>

\* registry.shutdown()
Shutdown ==
    /\ running
    /\ ShutdownRegistry
    /\ UNCHANGED <<geoVars, toolVars, httpVars, auxVars, bodyFull>>

\* time passes
Tick ==
    /\ running
    /\ now < MaxTicks * TickMs
    /\ now' = now + TickMs
    /\ UNCHANGED <<connections, timerActive, sweepDue, shutdownCalled, lastOp, prev>>
    /\ UNCHANGED <<geoVars, toolVars, httpVars, auxVars, bodyFull>>

----------------------------------------------------------------------------
(* The HTTP handlers of the routing server *)

\* GET /sse: a fresh session id, its server and transport are registered,
\* then the handler awaits server.connect(transport)
SseRequest(id) ==
    /\ running
    /\ sse[id].pc = "none"
    /\ connections' = RegisterMap(connections, id, HandleOf[id], now)
    /\ prev' = connections
    /\ lastOp' = Op("register", id, HandleOf[id], NoConnection)
    /\ sse' = [sse EXCEPT ![id] = [pc |-> "connecting", closed |-> FALSE,
                                   listener |-> FALSE]]
    /\ UNCHANGED <<timerActive, sweepDue, now, shutdownCalled>>
    /\ UNCHANGED <<postPc, postConn, lastHttp, httpCount, forwarded, running>>
    /\ UNCHANGED <<geoVars, toolVars, auxVars, bodyFull>>

\* await server.connect(transport) resolves: res.on('close', ...) is installed
ConnectResolves(id) ==
    /\ running
    /\ sse[id].pc = "connecting"
    /\ sse' = [sse EXCEPT ![id].pc = "connected", ![id].listener = TRUE]
    /\ UNCHANGED <<postPc, postConn, lastHttp, httpCount, forwarded, running>>
    /\ UNCHANGED <<geoVars, toolVars, regVars, auxVars, bodyFull>>

\* await server.connect(transport) rejects: the handler ends there
ConnectFails(id) ==
    /\ running
    /\ sse[id].pc = "connecting"
    /\ sse' = [sse EXCEPT ![id].pc = "failed"]
    /\ UNCHANGED <<postPc, postConn, lastHttp, httpCount, forwarded, running>>
    /\ UNCHANGED <<geoVars, toolVars, regVars, auxVars, bodyFull>>

\* the response stream of the session closes; an installed 'close'
\* listener runs registry.remove(sessionId)
ResCloses(id) ==
    /\ running
    /\ sse[id].pc # "none"
    /\ ~sse[id].closed
    /\ sse' = [sse EXCEPT ![id].closed = TRUE]
    /\ IF sse[id].listener
       THEN /\ connections' = RemoveMap(connections, id)
            /\ prev' = connections
            /\ lastOp' = Op("remove", id, NoHandle, NoConnection)
       ELSE UNCHANGED <<connections, prev, lastOp>>
    /\ UNCHANGED <<timerActive, sweepDue, now, shutdownCalled>>
    /\ UNCHANGED <<postPc, postConn, lastHttp, httpCount, forwarded, running>>
    /\ UNCHANGED <<geoVars, toolVars, auxVars, bodyFull>>

\* POST /message?session=s up to await readBody(req)
PostMessage(s) ==
    /\ running
    /\ postPc = "idle"
    /\ httpCount < MaxPosts
    /\ httpCount' = httpCount + 1
    /\ IF s = NoSession
       THEN /\ lastHttp' = [session |-> s, status |-> 400,
                            error |-> "Missing session parameter"]
            /\ UNCHANGED <<connections, prev, lastOp, postPc, postConn>>
       ELSE LET conn == GetResult(connections, s, now) IN
            /\ connections' = GetMap(connections, s, now)
            /\ prev' = connections
            /\ lastOp' = Op("get", s, NoHandle, conn)
            /\ IF SessionMissing(conn)
               THEN /\ lastHttp' = [session |-> s, status |-> 404,
                                    error |-> "Session not found or expired"]
                    /\ UNCHANGED <<postPc, postConn>>
               ELSE /\ lastHttp' = [session |-> s, status |-> 0, error |-> ""]
                    /\ postPc' = "readingBody"
                    /\ postConn' = conn
    /\ UNCHANGED <<timerActive, sweepDue, now, shutdownCalled>>
    /\ UNCHANGED <<sse, forwarded, running>>
    /\ UNCHANGED <<geoVars, toolVars, auxVars, bodyFull>>

\* await readBody(req) settles; JSON.parse, then
\* connection.transport.handlePostMessage(req, res, parsedBody)
PostBodyRead(wellFormed) ==
    /\ running
    /\ postPc = "readingBody"
    /\ IF wellFormed
       THEN /\ forwarded' = Append(forwarded,
                                   [session |-> postConn.sessionId,
                                    transport |-> postConn.transport])
            /\ lastHttp' = [lastHttp EXCEPT !.status = 202]
       ELSE /\ lastHttp' = [lastHttp EXCEPT !.status = 500,
                                            !.error = "Internal server error"]
            /\ UNCHANGED forwarded
    /\ postPc' = "idle"
    /\ postConn' = NoConnection
    /\ UNCHANGED <<sse, httpCount, running>>
    /\ UNCHANGED <<geoVars, toolVars, regVars, auxVars, bodyFull>>

\* SIGINT: registry.shutdown(); httpServer.close(); process.exit(0)
Sigint ==
    /\ running
    /\ ShutdownRegistry
    /\ running' = FALSE
    /\ UNCHANGED <<sse, postPc, postConn, lastHttp, httpCount, forwarded>>
    /\ UNCHANGED <<geoVars, toolVars, auxVars, bodyFull>>

----------------------------------------------------------------------------
(* The HTTP handlers of src/sse-server.ts *)

Methods == {"GET", "POST", "OPTIONS"}

\* the second message URL is the endpoint with the session parameter that
\* the transport announces to its client
Urls == {"/", "/health", "/sse", "/message", "/message?sessionId=1"}

MessageUrls == {"/message", "/message?sessionId=1"}

\* the status the request handler answers with, branch by branch
Route(method, url) ==
    IF method = "OPTIONS" THEN 200
    ELSE IF method = "GET" /\ url = "/health" THEN 200
    ELSE IF method = "GET" /\ url = "/" THEN 200
    ELSE IF method = "GET" /\ url = "/sse" THEN 200
    ELSE IF method = "POST" /\ url = "/message" THEN 405
    ELSE 404

LogEntry(method, url) ==
    [method |-> method, url |-> url, status |-> Route(method, url),
     open |-> ssePc = "open"]

\* GET /sse: new SSEServerTransport('/message', res), then the handler
\* awaits server.connect(transport)
GetSse ==
    /\ Len(reqLog) < MaxRequests
    /\ ssePc \in {"none", "closed"}
    /\ ssePc' = "connecting"
    /\ reqLog' = Append(reqLog, LogEntry("GET", "/sse"))
    /\ UNCHANGED <<coreVars, proxyVars, alertVars>>

\* await server.connect(transport) resolves: the stream is open
SseConnectResolves ==
    /\ ssePc = "connecting"
    /\ ssePc' = "open"
    /\ UNCHANGED reqLog
    /\ UNCHANGED <<coreVars, proxyVars, alertVars>>

\* the client closes the stream
SseStreamCloses ==
    /\ ssePc = "open"
    /\ ssePc' = "closed"
    /\ UNCHANGED reqLog
    /\ UNCHANGED <<coreVars, proxyVars, alertVars>>

\* any other request: answered by the first branch that matches
HttpRequest(method, url) ==
    /\ Len(reqLog) < MaxRequests
    /\ ~(method = "GET" /\ url = "/sse")
    /\ reqLog' = Append(reqLog, LogEntry(method, url))
    /\ UNCHANGED ssePc
    /\ UNCHANGED <<coreVars, proxyVars, alertVars>>

----------------------------------------------------------------------------
(* The HTTP proxy: callMCPTool and the child's output *)

\* async function callMCPTool(toolName, args, timeout = 30000)
DefaultProxyTimeoutMs == 30000

\* let messageId = 1
FirstMessageId == 1

CallIds == 1..MaxCalls

\* the ids a line of the child's output can carry: those of the requests,
\* and two that no request has
ResponseIds == 0..(MaxCalls + 1)

\* an invocation that has not been made
NoCall == [pc |-> "none", id |-> 0, got |-> 0, settles |-> 0, error |-> <<>>]

\* new Map()
NoPending == [id \in {} |-> 0]

ProxyTimeoutMessage(t) == <<"Request timeout after ", ToString(t), "ms">>

WriteErrorMessage == <<"write EPIPE">>

\* if (response.id && pendingRequests.has(response.id))
HasPending(pend, rid) == rid # 0 /\ rid \in DOMAIN pend

\* variant: the oldest pending invocation gets the response
Lookup_Oldest(pend, rid) ==
    pend[CHOOSE k \in DOMAIN pend : \A j \in DOMAIN pend : k <= j]

\* pendingRequests.get(response.id): the invocation that stored the entry
Lookup(pend, rid) == pend[rid]

\* pendingRequests.set(id, ...)
SetPending(pend, id, c) ==
    [k \in DOMAIN pend \cup {id} |-> IF k = id THEN c ELSE pend[k]]

\* pendingRequests.delete(id)
DeletePending(pend, id) == [k \in DOMAIN pend \ {id} |-> pend[k]]

\* variant: the timer is never armed
TimerPending_Never(call) == FALSE

\* the timeout of an invocation is pending: set after the entry is stored,
\* cleared by the resolve wrapper and by the catch of the write
TimerPending(call) == call.pc = "pending"

Settled(call) == call.pc \in {"resolved", "timedOut", "writeFailed"}

RECURSIVE Resume(_, _)
\* readyCallbacks.forEach(cb => cb()): every waiting invocation resumes
Resume(cs, waiting) ==
    IF waiting = <<>> THEN cs
    ELSE Resume([cs EXCEPT ![Head(waiting)].pc = "ready"], Tail(waiting))

\* callMCPTool up to await waitForReady()
CallMCPTool(c) ==
    /\ calls[c].pc = "none"
    /\ IF serverReady
       THEN /\ calls' = [calls EXCEPT ![c].pc = "ready"]
            /\ UNCHANGED readyCallbacks
       ELSE /\ calls' = [calls EXCEPT ![c].pc = "waiting"]
            /\ readyCallbacks' = Append(readyCallbacks, c)
    /\ UNCHANGED <<messageId, pendingRequests, serverReady>>
    /\ UNCHANGED <<coreVars, sseSrvVars, alertVars>>

\* mcpServer.stderr.on('data'): the child logs that it is running
ChildReady ==
    /\ serverReady' = TRUE
    /\ calls' = Resume(calls, readyCallbacks)
    /\ readyCallbacks' = <<>>
    /\ UNCHANGED <<messageId, pendingRequests>>
    /\ UNCHANGED <<coreVars, sseSrvVars, alertVars>>

\* the promise executor of callMCPTool: id = messageId++, the entry is
\* stored, the timer is set, the request is written to the child's stdin
SendRequest(c, writeOk) ==
    /\ calls[c].pc = "ready"
    /\ messageId' = messageId + 1
    /\ IF writeOk
       THEN /\ pendingRequests' = SetPending(pendingRequests, messageId, c)
            /\ calls' = [calls EXCEPT ![c].pc = "pending", ![c].id = messageId]
       ELSE /\ pendingRequests' =
                  DeletePending(SetPending(pendingRequests, messageId, c), messageId)
            /\ calls' = [calls EXCEPT ![c].pc = "writeFailed",
                                      ![c].id = messageId,
                                      ![c].settles = @ + 1,
                                      ![c].error = WriteErrorMessage]
    /\ UNCHANGED <<serverReady, readyCallbacks>>
    /\ UNCHANGED <<coreVars, sseSrvVars, alertVars>>

\* mcpServer.stdout.on('data'): a response line that carries the id rid
StdoutLine(rid) ==
    /\ IF HasPending(pendingRequests, rid)
       THEN LET c == Lookup(pendingRequests, rid) IN
            /\ calls' = [calls EXCEPT ![c].pc = "resolved",
                                      ![c].got = rid,
                                      ![c].settles = @ + 1]
            /\ pendingRequests' = DeletePending(pendingRequests, rid)
       ELSE UNCHANGED <<calls, pendingRequests>>
    /\ UNCHANGED <<messageId, serverReady, readyCallbacks>>
    /\ UNCHANGED <<coreVars, sseSrvVars, alertVars>>

\* the timeout of invocation c fires
TimeoutFires(c) ==
    /\ TimerPending(calls[c])
    /\ IF calls[c].id \in DOMAIN pendingRequests
       THEN /\ pendingRequests' = DeletePending(pendingRequests, calls[c].id)
            /\ calls' = [calls EXCEPT ![c].pc = "timedOut",
                                      ![c].settles = @ + 1,
                                      ![c].error =
                                          ProxyTimeoutMessage(DefaultProxyTimeoutMs)]
       ELSE UNCHANGED <<calls, pendingRequests>>
    /\ UNCHANGED <<messageId, serverReady, readyCallbacks>>
    /\ UNCHANGED <<coreVars, sseSrvVars, alertVars>>

----------------------------------------------------------------------------
(* fetchWeatherAlerts *)

\* a text is a sequence of tokens: a number as a template prints it, or a
\* literal piece of text
Num(v) == [kind |-> "num", num |-> v, txt |-> ""]

Lit(t) == [kind |-> "text", num |-> 0, txt |-> t]

\* a field of data.current: a number, or null
Reading(v) == [present |-> TRUE, v |-> v]

NullReading == [present |-> FALSE, v |-> 0]

\* if (temp > 35)
HeatThreshold == 35

\* else if (temp < -10)
ColdThreshold == -10

\* if (windSpeed > 50)
WindThreshold == 50

\* if (precipitation > 20)
PrecipitationThreshold == 20

Temperatures ==
    {Reading(ColdThreshold - 1), Reading(ColdThreshold), Reading(HeatThreshold),
     Reading(HeatThreshold + 1), NullReading}

WindSpeeds == {Reading(WindThreshold), Reading(WindThreshold + 1), NullReading}

Precipitations ==
    {Reading(PrecipitationThreshold), Reading(PrecipitationThreshold + 1)}

\* 7 is a code the table does not have
WeatherCodeChoices == {0, 7, 95, 96}

\* WEATHER_CODES[code] || "Unknown"
WeatherText(code) ==
    IF code = 0 THEN <<Lit("Clear sky")>>
    ELSE IF code = 95 THEN <<Lit("Thunderstorm")>>
    ELSE IF code = 96 THEN <<Lit("Thunderstorm"), Lit(" with slight hail")>>
    ELSE <<Lit("Unknown")>>

\* `${value}<unit>`
Template(r, unit) ==
    IF r.present THEN <<Num(r.v), Lit(unit)>> ELSE <<Lit("null"), Lit(unit)>>

\* text.replace(unit, ""): the first occurrence is removed
RECURSIVE Replace(_, _)
Replace(text, unit) ==
    IF text = <<>> THEN <<>>
    ELSE IF Head(text) = Lit(unit) THEN Tail(text)
    ELSE <<Head(text)>> \o Replace(Tail(text), unit)

NaN == [nan |-> TRUE, v |-> 0]

\* parseFloat(text): the leading number, or NaN
ParseFloat(text) ==
    IF text # <<>> /\ Head(text).kind = "num"
    THEN [nan |-> FALSE, v |-> Head(text).num]
    ELSE NaN

\* variant: the comparison admits the threshold itself
Gt_OrEqual(x, n) == ~x.nan /\ x.v >= n

\* x > n; a comparison with NaN is false
Gt(x, n) == ~x.nan /\ x.v > n

\* x < n; a comparison with NaN is false
Lt(x, n) == ~x.nan /\ x.v < n

LowerOf(t) ==
    IF t = "Thunderstorm" THEN "thunderstorm"
    ELSE IF t = "Clear sky" THEN "clear sky"
    ELSE IF t = "Unknown" THEN "unknown"
    ELSE t

\* text.toLowerCase()
ToLowerCase(text) == [i \in 1..Len(text) |-> Lit(LowerOf(text[i].txt))]

\* text.includes(needle)
TextIncludes(text, needle) == \E i \in 1..Len(text) : text[i] = Lit(needle)

\* the alert texts, without their symbols
HeatWarning == "Extreme Heat Warning: Temperature exceeds 35 C"

ColdWarning == "Extreme Cold Warning: Temperature below -10 C"

WindWarning == "High Wind Warning: Wind speeds exceed 50 km/h"

PrecipitationWarning == "Heavy Precipitation Warning: Significant rainfall detected"

ThunderstormWarning == "Thunderstorm Warning: Severe weather conditions"

NoAlerts == "No weather alerts at this time"

\* currentWeather.current before any call
NoCurrent == [temperature |-> <<>>, wind_speed |-> <<>>,
              precipitation |-> <<>>, weather |-> <<>>]

\* the current record fetchCurrentWeather builds from data.current
\* (the unit of the temperature is written without its degree sign)
CurrentOf(t, w, p, code) ==
    [temperature |-> Template(t, "C"),
     wind_speed |-> Template(w, " km/h"),
     precipitation |-> Template(p, " mm"),
     weather |-> WeatherText(code)]

\* the alerts list fetchWeatherAlerts builds from currentWeather.current
AlertsOf(cur) ==
    LET temp == ParseFloat(Replace(cur.temperature, "C"))
        windSpeed == ParseFloat(Replace(cur.wind_speed, " km/h"))
        precipitation == ParseFloat(Replace(cur.precipitation, " mm"))
        a1 == IF Gt(temp, HeatThreshold) THEN <<HeatWarning>>
              ELSE IF Lt(temp, ColdThreshold) THEN <<ColdWarning>>
              ELSE <<>>
        a2 == IF Gt(windSpeed, WindThreshold) THEN <<WindWarning>> ELSE <<>>
        a3 == IF Gt(precipitation, PrecipitationThreshold)
              THEN <<PrecipitationWarning>> ELSE <<>>
        a4 == IF TextIncludes(ToLowerCase(cur.weather), "thunderstorm")
              THEN <<ThunderstormWarning>> ELSE <<>>
        all == a1 \o a2 \o a3 \o a4
    IN IF Len(all) > 0 THEN all ELSE <<NoAlerts>>

\* fetchWeatherAlerts after its two awaits, on the data the weather
\* endpoint sent
FetchWeatherAlerts(t, w, p, code) ==
    /\ current' = CurrentOf(t, w, p, code)
    /\ alerts' = AlertsOf(CurrentOf(t, w, p, code))
    /\ UNCHANGED <<coreVars, sseSrvVars, proxyVars>>

----------------------------------------------------------------------------
(* The specification *)

Init ==
    /\ caller = "none"
    /\ city = "" /\ country = "" /\ maxRetries = 0 /\ timeoutMs = 0
    /\ attempt = 0
    /\ pc = "idle"
    /\ timerArmed = FALSE
    /\ lastError = NoError
    /\ location = NoLocation
    /\ events = <<>>
    /\ hpc = "idle"
    /\ toolName = ""
    /\ toolArgs = NoArgs
    /\ wxPlan = <<>>
    /\ wxRequests = 0
    /\ toolResult = NoResult
    /\ connections = EmptyMap
    /\ timerActive = TRUE
    /\ sweepDue = CleanupIntervalMs
    /\ now = 0
    /\ shutdownCalled = FALSE
    /\ lastOp = NoOp
    /\ prev = EmptyMap
    /\ sse = [id \in SessionIds |-> NoSse]
    /\ postPc = "idle"
    /\ postConn = NoConnection
    /\ lastHttp = NoHttp
    /\ httpCount = 0
    /\ forwarded = <<>>
    /\ running = TRUE
    /\ bodyFull = FALSE
    /\ ssePc = "none"
    /\ reqLog = <<>>
    /\ messageId = FirstMessageId
    /\ pendingRequests = NoPending
    /\ serverReady = FALSE
    /\ readyCallbacks = <<>>
    /\ calls = [c \in 1..MaxCalls |-> NoCall]
    /\ current = NoCurrent
    /\ alerts = <<>>

Next ==
    \/ /\ pc = "idle" /\ hpc = "idle"
       /\ \E c \in Cities, co \in Countries, mr \in 0..MaxBudget, t \in TimeoutChoices :
             CallGeocode(c, co, mr, t)
    \/ /\ pc = "fetch"
       /\ \E status \in Statuses : FetchResolves(status)
    \/ FetchRejects
    \/ TimerFires
    \/ /\ pc = "body"
       /\ \E body \in Bodies : BodyArrives(body)
    \/ BackoffElapsed
    \/ /\ pc = "idle" /\ hpc = "idle"
       /\ \E name \in ToolNames, args \in ArgBags : CallTool(name, args)
    \/ /\ hpc = "geocoding"
       /\ \E plan \in WxPlans : ForecastResumes(plan)
    \/ /\ hpc = "geocoding2"
       /\ \E plan \in WxPlans : AlertsWeatherResumes(plan)
    \/ WxFetchSettles
    \/ /\ hpc = "wxBody"
       /\ \E wellFormed \in BOOLEAN : WxBodyArrives(wellFormed)

Spec == Init /\ [][Next]_vars

\* The program's own steps are fair: a pending timer fires, a sleep ends, a
\* settled promise resumes its awaiter.  The upstream owes nothing.
FairSpec ==
    /\ Spec
    /\ WF_vars(TimerFires)
    /\ WF_vars(BackoffElapsed)
    /\ WF_vars(\E plan \in WxPlans : ForecastResumes(plan))
    /\ WF_vars(\E plan \in WxPlans : AlertsWeatherResumes(plan))

\* The ConnectionRegistry class, called in any order
RegistryNext ==
    \/ \E id \in SessionIds, h \in Handles : Register(id, h)
    \/ \E id \in SessionIds : Get(id)
    \/ \E id \in SessionIds : Remove(id)
    \/ CleanupStaleConnections
    \/ Shutdown
    \/ Tick

RegistrySpec == Init /\ [][RegistryNext]_vars

\* setInterval keeps firing: a due sweep runs
RegistryFairSpec == RegistrySpec /\ WF_vars(CleanupStaleConnections)

\* The routing server: its HTTP handlers, the cleanup interval and SIGINT
RoutingNext ==
    \/ \E id \in SessionIds : SseRequest(id)
    \/ \E id \in SessionIds : ConnectResolves(id)
    \/ \E id \in SessionIds : ConnectFails(id)
    \/ \E id \in SessionIds : ResCloses(id)
    \/ \E s \in SessionIds \cup {NoSession} : PostMessage(s)
    \/ \E wellFormed \in BOOLEAN : PostBodyRead(wellFormed)
    \/ CleanupStaleConnections
    \/ Tick
    \/ Sigint

RoutingSpec == Init /\ [][RoutingNext]_vars

\* The HTTP server of src/sse-server.ts
SseHttpNext ==
    \/ GetSse
    \/ SseConnectResolves
    \/ SseStreamCloses
    \/ \E method \in Methods, url \in Urls : HttpRequest(method, url)

SseHttpSpec == Init /\ [][SseHttpNext]_vars

\* a connect that has settled resumes the handler
SseHttpFairSpec == SseHttpSpec /\ WF_vars(SseConnectResolves)

\* The HTTP proxy
ProxyNext ==
    \/ \E c \in CallIds : CallMCPTool(c)
    \/ ChildReady
    \/ \E c \in CallIds, writeOk \in BOOLEAN : SendRequest(c, writeOk)
    \/ \E rid \in ResponseIds : StdoutLine(rid)
    \/ \E c \in CallIds : TimeoutFires(c)

ProxySpec == Init /\ [][ProxyNext]_vars

\* the proxy's own steps are fair: a resumed invocation runs its promise
\* executor, a pending timeout fires.  The child owes nothing.
ProxyFairSpec ==
    /\ ProxySpec
    /\ \A c \in CallIds : WF_vars(\E writeOk \in BOOLEAN : SendRequest(c, writeOk))
    /\ \A c \in CallIds : WF_vars(TimeoutFires(c))

\* fetchWeatherAlerts on every weather the endpoint can report
AlertsNext ==
    \E t \in Temperatures, w \in WindSpeeds, p \in Precipitations,
       code \in WeatherCodeChoices : FetchWeatherAlerts(t, w, p, code)

AlertsSpec == Init /\ [][AlertsNext]_vars

----------------------------------------------------------------------------
(* Reading the history *)

IsAttemptEv(e) == e.ev = "attempt"

IsOutcomeEv(e) == e.ev = "outcome"

IsWaitEv(e) == e.ev = "wait"

AttemptCount == Len(SelectSeq(events, IsAttemptEv))

Outcomes == SelectSeq(events, IsOutcomeEv)

Waits == SelectSeq(events, IsWaitEv)

Done == pc \in {"Success", "Failed"}

Attempting == pc \in {"fetch", "body", "backoff"}

IsServerErrorEv(e) == e.ev = "outcome" /\ e.kind = "http" /\ e.val >= 500

IsRateLimitEv(e) == e.ev = "outcome" /\ e.kind = "http" /\ e.val = 429

IsClientErrorEv(e) ==
    e.ev = "outcome" /\ e.kind = "http" /\ e.val >= 400 /\ e.val < 500 /\ e.val # 429

AllServerErrors ==
    /\ Len(Outcomes) >= 1
    /\ \A i \in 1..Len(Outcomes) : IsServerErrorEv(Outcomes[i])

AllAborted ==
    /\ Len(Outcomes) >= 1
    /\ \A i \in 1..Len(Outcomes) : Outcomes[i].kind = "abort"

\* event i ended the call in failure: nothing follows it
EndsCall(i) == i = Len(events) /\ pc = "Failed"

\* after event i (the outcome of attempt n) the call goes on: the backoff
\* wait of attempt n, then attempt n + 1
GoesOn(i) ==
    /\ i < Len(events)
    /\ events[i + 1].ev = "wait"
    /\ events[i + 1].n = events[i].n
    /\ IF i + 1 = Len(events)
       THEN pc = "backoff"
       ELSE events[i + 2].ev = "attempt" /\ events[i + 2].n = events[i].n + 1

----------------------------------------------------------------------------
(* Claims *)

\* C1: against an upstream that answers every attempt with a 5xx status,
\* geocodeCity issues exactly maxRetries fetch attempts (maxRetries >= 1) and
\* then fails with the server error of the last attempt; it never issues
\* more than maxRetries attempts.
C1_ServerErrorsUseWholeBudget ==
    /\ AttemptCount <= maxRetries
    /\ (maxRetries >= 1 /\ AllServerErrors) =>
          /\ pc # "Success"
          /\ pc = "Failed" =>
                /\ AttemptCount = maxRetries
                /\ lastError.name = "Error"
                /\ lastError.message =
                      <<"Geocoding API server error (",
                        ToString(Outcomes[Len(Outcomes)].val), "): ",
                        ReasonPhrase[Outcomes[Len(Outcomes)].val],
                        ". The service may be temporarily down.">>

C1_Witness ==
    /\ pc = "Failed" /\ caller = "direct"
    /\ maxRetries = 3 /\ AttemptCount = 3
    /\ AllServerErrors
    /\ Outcomes[1].val = 503 /\ Outcomes[3].val = 500

\* C2: an attempt answered with HTTP 429 fails the call at once with the
\* rate-limit error: no backoff wait and no further attempt follows,
\* whatever budget remains; a 429 on the first attempt means exactly one
\* attempt.
C2_RateLimitIsTerminal ==
    \A i \in 1..Len(events) :
        IsRateLimitEv(events[i]) =>
            /\ EndsCall(i)
            /\ lastError.name = "Error"
            /\ Includes(lastError.message, "rate limit")
            /\ events[i].n = 0 => (AttemptCount = 1 /\ Len(Waits) = 0)

C2_Witness ==
    /\ pc = "Failed" /\ maxRetries = 3
    /\ Len(events) >= 1
    /\ IsRateLimitEv(events[Len(events)])
    /\ events[Len(events)].n = 0
    /\ AttemptCount = 1

\* C3: a successful status whose body has a missing or empty results array
\* fails the call with a 'City not found' error that names the requested
\* city, and no further attempt is made.
C3_NoResultsIsCityNotFound ==
    \A i \in 1..Len(events) :
        (events[i].ev = "outcome" /\ events[i].kind = "notFound") =>
            /\ EndsCall(i)
            /\ Includes(lastError.message, "City not found")
            /\ Includes(lastError.message, city)

C3_Witness ==
    /\ pc = "Failed" /\ maxRetries = 3 /\ city = "Paris"
    /\ Len(events) = 2
    /\ events[2].kind = "notFound"

\* C4: a 4xx status other than 429 is a terminal failure: after such a
\* response the call makes no further attempt and fails immediately,
\* whatever budget remains.
C4_ClientErrorIsTerminal ==
    \A i \in 1..Len(events) : IsClientErrorEv(events[i]) => EndsCall(i)

\* C5 as stated: a successful status whose body is not parseable JSON is a
\* terminal failure: the call fails with the invalid-data error and makes no
\* further attempt, whatever budget remains.
C5_InvalidJsonIsTerminal ==
    \A i \in 1..Len(events) :
        (events[i].ev = "outcome" /\ events[i].kind = "invalidJson") =>
            /\ EndsCall(i)
            /\ Includes(lastError.message, "invalid JSON")

\* C5 amended: a successful status whose body is not parseable JSON is a
\* retryable failure: while budget remains the call waits the backoff and
\* makes a further attempt; on the last attempt of the budget the call fails
\* with the invalid-data error.
C5_InvalidJsonIsRetried ==
    \A i \in 1..Len(events) :
        (events[i].ev = "outcome" /\ events[i].kind = "invalidJson") =>
            IF events[i].n + 1 < maxRetries
            THEN GoesOn(i)
            ELSE /\ EndsCall(i)
                 /\ Includes(lastError.message, "invalid JSON")

C5_Witness ==
    /\ pc = "Failed" /\ maxRetries = 2
    /\ Len(Outcomes) = 2
    /\ Outcomes[1].kind = "invalidJson" /\ Outcomes[2].kind = "invalidJson"
    /\ AttemptCount = 2

\* C6: an attempt aborted by its per-attempt timer is a retryable failure: a
\* next attempt is made whenever budget remains, and when every attempt of
\* the budget is aborted by the timer the call fails with the
\* 'timed out after <timeoutMs>ms' error, not with the raw abort error.
C6_AbortIsRetriedAndRelabelled ==
    /\ \A i \in 1..Len(events) :
          (events[i].ev = "outcome" /\ events[i].kind = "abort") =>
              IF events[i].n + 1 < maxRetries THEN GoesOn(i) ELSE EndsCall(i)
    /\ (pc = "Failed" /\ AllAborted) =>
          /\ AttemptCount = maxRetries
          /\ lastError.name = "Error"
          /\ lastError.message =
                <<"Geocoding API request ", "timed out after ",
                  ToString(timeoutMs), "ms",
                  ". The service may be slow or down.">>

C6_Witness ==
    /\ pc = "Failed" /\ maxRetries = 3 /\ timeoutMs = 2500
    /\ AllAborted
    /\ AttemptCount = 3

\* C7: after a retryable failure of attempt k (0-based) with attempts
\* remaining the call waits 2^k * 1000 ms before attempt k + 1 starts; the
\* waits of one call are strictly increasing, and no other wait happens
\* between two attempts.
C7_ExponentialBackoff ==
    /\ \A i \in 1..Len(events) :
          events[i].ev = "wait" =>
              /\ events[i].val = (2 ^ events[i].n) * 1000
              /\ events[i].n + 1 < maxRetries
              /\ i > 1
              /\ events[i - 1].ev = "outcome"
              /\ events[i - 1].n = events[i].n
              /\ i < Len(events) =>
                    (events[i + 1].ev = "attempt"
                        /\ events[i + 1].n = events[i].n + 1)
    /\ \A i \in 1..Len(events) :
          events[i].ev = "attempt" =>
              IF events[i].n = 0
              THEN i = 1
              ELSE /\ i > 2
                   /\ events[i - 1].ev = "wait"
                   /\ events[i - 1].n = events[i].n - 1
                   /\ events[i - 2].ev = "outcome"
    /\ \A i, j \in 1..Len(Waits) : i < j => Waits[i].val < Waits[j].val

C7_Witness ==
    /\ Len(Waits) = 2
    /\ Waits[1].val = 1000 /\ Waits[2].val = 2000
    /\ AttemptCount = 3

\* C8: with the default budget of 3 attempts, a call whose attempts all fail
\* retryably goes through the three backoff delays 1s, 2s and 4s before it
\* gives up.
C8_ThreeDelaysBeforeGivingUp ==
    (/\ pc = "Failed"
     /\ maxRetries = DefaultMaxRetries
     /\ AttemptCount = DefaultMaxRetries
     /\ Len(Outcomes) = DefaultMaxRetries
     /\ ~IsTerminalMessage(lastError.message))
        => /\ Len(Waits) = 3
           /\ Waits[1].val = 1000 /\ Waits[2].val = 2000 /\ Waits[3].val = 4000

\* C9: in a get_weather_forecast call whose geocoding succeeds, if the
\* forecast request fails transiently twice (timeout) and would succeed on a
\* third attempt, the tool call returns a valid forecast result rather than
\* an error result.
C9_ForecastSurvivesTwoTimeouts ==
    (/\ hpc = "returned"
     /\ toolName = "get_weather_forecast"
     /\ pc = "Success"
     /\ Len(wxPlan) >= 3
     /\ wxPlan[1] = "timeout" /\ wxPlan[2] = "timeout" /\ wxPlan[3] = "ok")
        => ~toolResult.isError

\* C10: every geocodeCity call eventually reaches Success or Failed and
\* never stays in Attempting forever, whatever the upstream does, including
\* an upstream that never answers and one that sends the response headers
\* and then never finishes the body.
C10_EveryCallTerminates == Attempting ~> Done

\* C11: for every tool name, argument bag and outcome of the upstream calls
\* the CallTool handler returns a result and never throws: a content result
\* without the error flag, or the text 'Error: <message>' with isError true;
\* a tool name that is not registered yields 'Unknown tool: <name>'.
C11_HandlerAlwaysReturnsAResult ==
    /\ hpc \in {"idle", "geocoding", "geocoding2", "wxFetch", "wxBody", "returned"}
    /\ hpc # "returned" => toolResult = [isError |-> FALSE, text |-> <<>>]
    /\ hpc = "returned" =>
          /\ Len(toolResult.text) >= 2
          /\ toolResult.isError <=> toolResult.text[1] = "Error: "
          /\ toolName \notin {"get_current_weather", "get_weather_forecast",
                              "get_weather_alerts", "get_growing_conditions",
                              "get_historical_weather"}
                => /\ toolResult.isError
                   /\ toolResult.text = <<"Error: ", "Unknown tool: ", toolName>>

C11_Witness ==
    /\ hpc = "returned"
    /\ toolName = "get_historical_weather"
    /\ wxRequests = 2
    /\ toolResult.isError
    /\ toolResult.text[2] = "Historical Weather API error: "

\* the arguments of the call violate the schema of its tool
C12_SchemaViolated ==
    \/ ~toolArgs.hasCity
    \/ /\ toolName = "get_weather_forecast"
       /\ toolArgs.hasDays
       /\ (toolArgs.days < 1 \/ toolArgs.days > 16)
    \/ /\ toolName = "get_historical_weather"
       /\ \/ ~toolArgs.hasMonth
          \/ toolArgs.month < 1 \/ toolArgs.month > 12
          \/ (toolArgs.hasYears /\ (toolArgs.years_back < 1 \/ toolArgs.years_back > 10))

\* C12: a tool call whose arguments violate the tool's schema (city missing,
\* days outside 1..16, month missing or outside 1..12, years_back outside
\* 1..10) returns an error result immediately: no geocoding or weather
\* request is issued for it and nothing is retried.
C12_InvalidArgumentsIssueNoRequest ==
    (/\ hpc # "idle"
     /\ toolName \in {"get_current_weather", "get_weather_forecast",
                      "get_weather_alerts", "get_growing_conditions",
                      "get_historical_weather"}
     /\ C12_SchemaViolated)
        => /\ hpc = "returned"
           /\ toolResult.isError
           /\ toolResult.text[1] = "Error: "
           /\ pc = "idle"
           /\ events = <<>>
           /\ wxRequests = 0

C12_Witness ==
    /\ hpc = "returned"
    /\ toolName = "get_weather_forecast"
    /\ toolArgs.hasCity /\ toolArgs.hasDays /\ toolArgs.days = 17
    /\ toolResult.isError
    /\ events = <<>>


----------------------------------------------------------------------------
(* The session registry *)

\* C13: after register(id, t, srv) the entry of id holds t and srv with
\* createdAt = lastActivity = the time of the call, and a get(id) on a
\* present entry returns that entry with the same transport, server and
\* createdAt, its lastActivity set to the time of the get, never earlier
\* than createdAt; the stored entry is the returned one.
C13_GetReturnsWhatWasRegistered ==
    /\ lastOp.op = "register" =>
          /\ lastOp.id \in DOMAIN connections
          /\ connections[lastOp.id] =
                [sessionId |-> lastOp.id,
                 transport |-> lastOp.handle.transport,
                 server |-> lastOp.handle.server,
                 createdAt |-> lastOp.at,
                 lastActivity |-> lastOp.at]
    /\ (lastOp.op = "get" /\ lastOp.id \in DOMAIN prev) =>
          /\ lastOp.ret.sessionId = lastOp.id
          /\ lastOp.ret.transport = prev[lastOp.id].transport
          /\ lastOp.ret.server = prev[lastOp.id].server
          /\ lastOp.ret.createdAt = prev[lastOp.id].createdAt
          /\ lastOp.ret.lastActivity = lastOp.at
          /\ lastOp.ret.lastActivity >= lastOp.ret.createdAt
          /\ lastOp.id \in DOMAIN connections
          /\ connections[lastOp.id] = lastOp.ret
    /\ \A id \in DOMAIN connections :
          /\ connections[id].createdAt <= connections[id].lastActivity
          /\ connections[id].lastActivity <= now

\* a get that finds an entry registered at an earlier time
C13_Witness ==
    /\ lastOp.op = "get"
    /\ lastOp.id \in DOMAIN prev
    /\ lastOp.at > prev[lastOp.id].lastActivity
    /\ prev[lastOp.id].transport = "t2"
    /\ lastOp.ret.transport = "t2"

\* C14: a sweep removes exactly the entries idle for more than 30 minutes
\* and leaves every other entry as it was; a get on an id that has no
\* entry returns undefined and changes nothing.
C14_SweepRemovesExactlyTheStale ==
    /\ lastOp.op = "sweep" =>
          /\ DOMAIN connections =
                {id \in DOMAIN prev :
                    lastOp.at - prev[id].lastActivity <= StaleTimeoutMs}
          /\ \A id \in DOMAIN connections : connections[id] = prev[id]
    /\ (lastOp.op = "get" /\ lastOp.id \notin DOMAIN prev) =>
          /\ lastOp.ret = NoConnection
          /\ connections = prev

\* a sweep that removes one entry and keeps one idle for exactly 30 minutes
C14_Witness ==
    /\ lastOp.op = "sweep"
    /\ \E gone \in DOMAIN prev \ DOMAIN connections :
          lastOp.at - prev[gone].lastActivity > StaleTimeoutMs
    /\ \E kept \in DOMAIN connections :
          lastOp.at - connections[kept].lastActivity = StaleTimeoutMs

\* C15: remove(id) deletes the entry of id and nothing else; on an id
\* without an entry it leaves the registry as it was.
C15_RemoveDeletesOnlyItsEntry ==
    lastOp.op = "remove" =>
        /\ DOMAIN connections = DOMAIN prev \ {lastOp.id}
        /\ \A id \in DOMAIN connections : connections[id] = prev[id]
        /\ lastOp.id \notin DOMAIN prev => connections = prev

\* a remove of a present id that leaves the other entry in place
C15_Witness ==
    /\ lastOp.op = "remove"
    /\ lastOp.id \in DOMAIN prev
    /\ DOMAIN connections # {}

\* C16: a register on an id that already has an entry leaves that entry
\* as it was.
C16_DuplicateRegisterKeepsEntry ==
    (lastOp.op = "register" /\ lastOp.id \in DOMAIN prev) => connections = prev

\* C18: after shutdown() the registry is empty and the sweep timer is
\* cancelled, and once shutdown has been called the timer stays cancelled
\* and no sweep runs, whatever is called afterwards.
C18_ShutdownStopsTheSweep ==
    /\ lastOp.op = "shutdown" =>
          /\ connections = EmptyMap
          /\ ~timerActive
    /\ shutdownCalled =>
          /\ ~timerActive
          /\ lastOp.op # "sweep"

\* after shutdown an entry is registered again and grows stale with the
\* sweep overdue
C18_Witness ==
    /\ shutdownCalled
    /\ now >= sweepDue
    /\ \E id \in DOMAIN connections : IsStale(connections[id], now)

----------------------------------------------------------------------------
(* The routing server *)

EntryLeaves(id) == id \in DOMAIN connections /\ id \notin DOMAIN connections'

EntryChanges(id) ==
    /\ id \in DOMAIN connections
    /\ id \in DOMAIN connections'
    /\ connections'[id] # connections[id]

OnlyTouched(id) ==
    /\ lastOp'.op = "get"
    /\ lastOp'.id = id
    /\ connections'[id] = [connections[id] EXCEPT !.lastActivity = now]

\* C17 as stated: an entry leaves the registry only through a remove or
\* a sweep, and changes only through the lastActivity touch of get.
C17_EntriesLeaveOnlyByRemoveOrSweep ==
    [][\A id \in SessionIds :
          /\ EntryLeaves(id) => lastOp'.op \in {"remove", "sweep"}
          /\ EntryChanges(id) => OnlyTouched(id)]_vars

\* C17: every entry is stored under its own id; an entry changes only
\* through the lastActivity touch of get; an entry leaves only through
\* the remove of its closing connection, the idle sweep, or shutdown,
\* which clears every entry.
C17_EntriesLeaveByRemoveSweepOrShutdown ==
    [][/\ \A id \in DOMAIN connections' : connections'[id].sessionId = id
       /\ \A id \in SessionIds :
             /\ EntryLeaves(id) =>
                   \/ lastOp'.op = "remove" /\ lastOp'.id = id /\ sse'[id].closed
                   \/ lastOp'.op = "sweep"
                         /\ now - connections[id].lastActivity > StaleTimeoutMs
                   \/ lastOp'.op = "shutdown" /\ connections' = EmptyMap
             /\ EntryChanges(id) => OnlyTouched(id)]_vars

\* SIGINT has cleared a registry that held an entry
C17_Witness ==
    /\ ~running
    /\ lastOp.op = "shutdown"
    /\ DOMAIN prev # {}
    /\ connections = EmptyMap

\* C19: a POST /message whose session id has no entry is answered 404
\* 'Session not found or expired'; the registry is unchanged, nothing is
\* forwarded, no body is awaited and the process keeps running.
C19_UnknownSessionIs404 ==
    [][(/\ httpCount' = httpCount + 1
        /\ lastHttp'.session # NoSession
        /\ lastHttp'.session \notin DOMAIN connections)
          => /\ lastHttp'.status = 404
             /\ lastHttp'.error = "Session not found or expired"
             /\ connections' = connections
             /\ forwarded' = forwarded
             /\ postPc' = "idle"
             /\ running']_vars

\* a POST for a session whose connection has closed and been removed
C19_Witness ==
    /\ lastHttp.status = 404
    /\ lastHttp.session \in SessionIds
    /\ sse[lastHttp.session].closed
    /\ sse[lastHttp.session].pc = "connected"
    /\ lastOp.op = "get"
    /\ running

\* C20: a session whose HTTP response has closed has no entry in the
\* registry.
C20_ClosedSessionsAreRemoved ==
    \A id \in SessionIds : sse[id].closed => id \notin DOMAIN connections


----------------------------------------------------------------------------
(* Eviction, interleavings and the remaining contracts *)

\* C21: while the registry has not been shut down, an entry that has been
\* idle for more than 30 minutes is eventually removed by the periodic
\* sweep, unless a get (or a new register) refreshes it or shutdown
\* clears it first.
C21_IdleSessionIsEventuallyRemoved ==
    \A id \in SessionIds :
        (/\ id \in DOMAIN connections
         /\ IsStale(connections[id], now)
         /\ ~shutdownCalled)
          ~> (\/ id \notin DOMAIN connections
              \/ ~IsStale(connections[id], now)
              \/ shutdownCalled)

\* the sweep has removed an entry that never received a get and had been
\* idle for more than 30 minutes, the registry not shut down
C21_Witness ==
    /\ ~shutdownCalled
    /\ lastOp.op = "sweep"
    /\ \E id \in DOMAIN prev \ DOMAIN connections :
          /\ prev[id].lastActivity = prev[id].createdAt
          /\ lastOp.at - prev[id].lastActivity > StaleTimeoutMs
    /\ connections = EmptyMap

\* C22: in the routing server every registry operation acts on the map as
\* the operation before it left it, and a sweep step removes only entries
\* whose lastActivity is more than 30 minutes before the time of the sweep
\* and leaves the others as they were.
C22_SweepNeverRemovesAnActiveEntry ==
    [][/\ lastOp' # lastOp => prev' = connections
       /\ (lastOp'.op = "sweep" /\ connections' # connections) =>
             \A id \in DOMAIN connections :
                 IF now - connections[id].lastActivity <= StaleTimeoutMs
                 THEN /\ id \in DOMAIN connections'
                      /\ connections'[id] = connections[id]
                 ELSE id \notin DOMAIN connections']_vars

\* a sweep has removed one entry and kept one that was created more than
\* 30 minutes earlier but touched by a POST /message since
C22_Witness ==
    /\ lastOp.op = "sweep"
    /\ DOMAIN prev \ DOMAIN connections # {}
    /\ \E kept \in DOMAIN connections :
          /\ lastOp.at - connections[kept].createdAt > StaleTimeoutMs
          /\ connections[kept].lastActivity > connections[kept].createdAt

\* C25: within one geocodeCity call an attempt begins only after the one
\* before it has settled, no attempt number is used twice, the abort timer
\* is pending only while the fetch is, and the attempt whose response
\* becomes the result was never aborted.
C25_OneAttemptInFlight ==
    /\ timerArmed => pc = "fetch"
    /\ pc \in {"fetch", "body"} =>
          /\ Len(events) > 0
          /\ events[Len(events)] = AttemptEv(attempt)
    /\ \A i \in 1..Len(events) :
          IsAttemptEv(events[i]) =>
              /\ i = Len(events) => pc \in {"fetch", "body"}
              /\ i < Len(events) =>
                    /\ IsOutcomeEv(events[i + 1])
                    /\ events[i + 1].n = events[i].n
              /\ \A j \in 1..Len(events) :
                    (IsAttemptEv(events[j]) /\ j # i) => events[j].n # events[i].n
    /\ \A i \in 1..Len(events) :
          IsOutcomeEv(events[i]) =>
              /\ i > 1
              /\ IsAttemptEv(events[i - 1])
              /\ events[i - 1].n = events[i].n
    /\ pc = "Success" =>
          /\ Len(events) > 0
          /\ events[Len(events)] = OutcomeEv(attempt, "ok", 200)
          /\ \A i \in 1..Len(events) :
                (IsOutcomeEv(events[i]) /\ events[i].kind = "abort")
                    => events[i].n # attempt

\* a call whose first attempt was aborted by its timer and whose later
\* attempt delivered the location
C25_Witness ==
    /\ pc = "Success"
    /\ attempt >= 1
    /\ Len(events) > 1
    /\ events[2] = OutcomeEv(0, "abort", 0)

\* C26: the first geocoding result is accepted exactly when it carries
\* latitude, longitude, name and timezone, a latitude or longitude of 0
\* included.
C26_CompleteResultIsAccepted ==
    LET o == Outcomes IN
    (Len(o) > 0 /\ o[Len(o)].kind \in {"ok", "incomplete"})
        => (o[Len(o)].kind = "ok" <=> bodyFull)

\* C27: a message is handed to a transport only while its session is
\* registered.
C27_ForwardOnlyToRegisteredSession ==
    [][Len(forwarded') > Len(forwarded) =>
          forwarded'[Len(forwarded')].session \in DOMAIN connections]_vars


\* how the geocodeCity call of src/sse-server.ts ended
SseGeocodeEnd == IF pc = "Success" THEN "location" ELSE "error"

\* C23: with the default budget and timeout, a finished geocodeCity call
\* of src/sse-server.ts has made as many attempts as the stdio geocodeCity
\* makes and has ended as the stdio geocodeCity ends on the same first
\* upstream outcome.
C23_StdioGeocodeBehavesAlike ==
    (/\ Done
     /\ maxRetries = DefaultMaxRetries
     /\ timeoutMs = DefaultTimeoutMs
     /\ Len(Outcomes) > 0)
        => /\ AttemptCount = StdioAttempts
           /\ SseGeocodeEnd = StdioGeocode(Outcomes[1])


\* a JSON-RPC message was POSTed to the message endpoint while the SSE
\* stream was open
PostedOnOpenStream ==
    \E i \in 1..Len(reqLog) :
        /\ reqLog[i].method = "POST"
        /\ reqLog[i].url \in MessageUrls
        /\ reqLog[i].open

\* a POSTed message was accepted for delivery to the MCP server
PostAccepted ==
    \E i \in 1..Len(reqLog) :
        /\ reqLog[i].method = "POST"
        /\ reqLog[i].url \in MessageUrls
        /\ ResponseOk(reqLog[i].status)

\* C24: on the server of src/sse-server.ts a message POSTed to /message
\* after GET /sse has opened the stream is eventually accepted and
\* delivered to the MCP server of the connection.
C24_PostedMessageIsAnswered == PostedOnOpenStream ~> PostAccepted


----------------------------------------------------------------------------
(* The HTTP proxy *)

\* C28: no two callMCPTool invocations have the same request id; a step
\* delivers a response only to a pending invocation whose id is the id the
\* response carries, and only that invocation changes; a resolved
\* invocation holds the response of its own id.
C28_ResponsesReachTheirOwnInvocation ==
    [][/\ \A c \in CallIds, d \in CallIds :
             (c # d /\ calls'[c].id # 0) => calls'[c].id # calls'[d].id
       /\ \A c \in CallIds :
             /\ calls'[c].pc = "resolved" => calls'[c].got = calls'[c].id
             /\ calls'[c].got # calls[c].got =>
                   /\ calls[c].pc = "pending"
                   /\ calls[c].id \in DOMAIN pendingRequests
                   /\ calls'[c].got = calls[c].id
                   /\ \A d \in CallIds \ {c} : calls'[d] = calls[d]
             /\ (Settled(calls[c]) \/ calls[c].pc \in {"none", "waiting"})
                   => calls'[c].got = calls[c].got]_vars

\* the child has answered the second request while the first is pending
\* and the third has timed out
C28_Witness ==
    \E c \in CallIds, d \in CallIds, e \in CallIds :
        /\ calls[c].pc = "pending"
        /\ calls[d].pc = "resolved"
        /\ calls[e].pc = "timedOut"
        /\ calls[c].id < calls[d].id
        /\ calls[d].got = calls[d].id

ProxySettlesOnce ==
    \A c \in CallIds :
        /\ calls[c].settles <= 1
        /\ Settled(calls[c]) <=> calls[c].settles = 1
        /\ Settled(calls[c]) => calls[c].id \notin DOMAIN pendingRequests
        /\ calls[c].pc = "pending" =>
              /\ calls[c].id \in DOMAIN pendingRequests
              /\ pendingRequests[calls[c].id] = c

\* C29: once the child has signalled ready, every callMCPTool invocation
\* settles, and it settles exactly once, by its response, by its timeout
\* or by the failed write; a settled invocation has no entry in
\* pendingRequests.
C29_EveryInvocationSettlesOnce ==
    /\ []ProxySettlesOnce
    /\ \A c \in CallIds :
          (calls[c].pc # "none" /\ serverReady) ~> Settled(calls[c])

\* the three invocations have settled in the three ways and nothing is
\* left pending
C29_Witness ==
    /\ serverReady
    /\ pendingRequests = NoPending
    /\ \E c \in CallIds, d \in CallIds, e \in CallIds :
          /\ calls[c].pc = "resolved"
          /\ calls[d].pc = "timedOut"
          /\ calls[e].pc = "writeFailed"


----------------------------------------------------------------------------
(* Weather alerts *)

HasAlert(a) == \E i \in 1..Len(alerts) : alerts[i] = a

\* the number a formatted field of current starts with exceeds n
ReadsAbove(text, n) == text[1].kind = "num" /\ text[1].num > n

ReadsBelow(text, n) == text[1].kind = "num" /\ text[1].num < n

MentionsThunderstorm ==
    \E i \in 1..Len(current.weather) : current.weather[i].txt = "Thunderstorm"

\* C30: the alerts list fetchWeatherAlerts returns is never empty; it holds
\* the heat warning iff the temperature is above 35, the cold warning iff
\* it is below -10 (never both), the wind warning iff the wind speed is
\* above 50, the precipitation warning iff the precipitation is above 20,
\* the thunderstorm warning iff the weather text names a thunderstorm, and
\* the single no-alerts entry iff none of them applies.
C30_AlertsMatchConditions ==
    current # NoCurrent =>
        /\ Len(alerts) >= 1
        /\ HasAlert(HeatWarning) <=> ReadsAbove(current.temperature, 35)
        /\ HasAlert(ColdWarning) <=> ReadsBelow(current.temperature, -10)
        /\ ~(HasAlert(HeatWarning) /\ HasAlert(ColdWarning))
        /\ HasAlert(WindWarning) <=> ReadsAbove(current.wind_speed, 50)
        /\ HasAlert(PrecipitationWarning)
              <=> ReadsAbove(current.precipitation, 20)
        /\ HasAlert(ThunderstormWarning) <=> MentionsThunderstorm
        /\ HasAlert(NoAlerts) <=>
              ~(\/ ReadsAbove(current.temperature, 35)
                \/ ReadsBelow(current.temperature, -10)
                \/ ReadsAbove(current.wind_speed, 50)
                \/ ReadsAbove(current.precipitation, 20)
                \/ MentionsThunderstorm)
        /\ HasAlert(NoAlerts) => alerts = <<NoAlerts>>

\* a cold, windy, wet thunderstorm: four warnings, the cold one first
C30_Witness ==
    /\ Len(alerts) = 4
    /\ alerts[1] = ColdWarning
    /\ alerts[4] = ThunderstormWarning
    /\ current.temperature = <<Num(-11), Lit("C")>>

====
